---- MODULE Spec2Model ----
(***************************************************************************)
(* rdownloader: the fetch executor (run_download), its resume sidecar, the *)
(* chunk planner and the probing dispatcher, as a state machine.           *)
(*                                                                         *)
(* Disk state (the output file and the .rdownload sidecar) survives a      *)
(* crash of the process; everything else is lost by it.                    *)
(***************************************************************************)
EXTENDS Integers, Sequences, FiniteSets, TLC

\* ------------------------------------------------------------------ bounds
\* Largest number of 1 MiB chunks a modelled resource is planned into.
MaxChunks == 3

\* Largest number of body frames the stream fallback receives.
MaxFrames == 2

\* Largest resource, in MiB, the planner is asked to plan on its own.
MaxPlanMiB == 17

\* --------------------------------------------------------- program constants
MiB == 1048576

chunk_size == 1048576

MIN_SIZE_FOR_MULTIPART == 1048576

PROBE_MAX_RETRIES == 3

PROBE_INITIAL_BACKOFF_SECS == 1

PARALLEL_LIMIT == 8

SEQUENTIAL_LIMIT == 1

\* ------------------------------------------------------------- value shapes
\* Option<T>: None is the empty tuple, Some(x) the one-element tuple.
None == <<>>

Some(x) == <<x>>

\* A url is the sequence of its lexical pieces, scheme first.
U1 == <<"http", "://", "host/a">>

U2 == <<"https", "://", "host/b">>

Urls == {U1, U2}

\* Resource sizes in bytes: one that fits a single chunk exactly, and one
\* that needs MaxChunks chunks (the last chunk is one byte long).
Sizes == {MiB, (MaxChunks - 1) * MiB + 1}

ETags == {None, Some("v1")}

ContentTypes == {None, Some("application/zip")}

ChunkContentTypes == ContentTypes \cup {Some("text/html")}

ChunkStatuses == {200, 206, 404}

Min(a, b) == IF a < b THEN a ELSE b

Max(a, b) == IF a > b THEN a ELSE b

\* ---------------------------------------------------------- chunk planner
ChunkState(s, e, c) == [start |-> s, end |-> e, completed |-> c]

\* The largest u64. The model's integers end at 2^31 - 1, which stands for
\* 2^64 - 1 here; every other modelled size is far below it.
U64_MAX == 2147483647

\* `x - 1` on u64 without overflow checks: (x - 1) mod 2^64
wrapping_dec(x) == IF x = 0 THEN U64_MAX ELSE x - 1

RECURSIVE create_chunks_from(_, _)
create_chunks_from(start, total_size) ==
    IF start < total_size
    THEN LET end == Min(start + chunk_size - 1, wrapping_dec(total_size))
         IN  <<ChunkState(start, end, FALSE)>> \o create_chunks_from(end + 1, total_size)
    ELSE <<>>

\* Variant of create_chunks: the last chunk is not cut at the end of the
\* resource.
create_chunks_unclamped(total_size, is_multipart) ==
    IF ~is_multipart
    THEN <<ChunkState(0, wrapping_dec(total_size), FALSE)>>
    ELSE [i \in 1..((total_size + chunk_size - 1) \div chunk_size) |->
             ChunkState((i - 1) * chunk_size, i * chunk_size - 1, FALSE)]

\* What create_chunks returns; `total_size - 1` wraps when overflow checks
\* are off.
create_chunks(total_size, is_multipart) ==
    IF ~is_multipart
    THEN <<ChunkState(0, wrapping_dec(total_size), FALSE)>>
    ELSE create_chunks_from(0, total_size)

\* With overflow checks on (a debug build) `total_size - 1` panics instead
\* of wrapping; line 19 is the only subtraction reached with total_size = 0.
create_chunks_panics(total_size, is_multipart, overflow_checks) ==
    overflow_checks /\ ~is_multipart /\ total_size = 0

\* ------------------------------------------------------------ resume record
DownloadState(url, total_size, etag, chunks) ==
    [url |-> url, total_size |-> total_size, etag |-> etag, chunks |-> chunks]

\* `let mut state: DownloadState;` before it is assigned.
NoState == DownloadState(<<>>, 0, None, <<>>)

\* serde_json::to_string_pretty: Option::None becomes JSON null, Some(s) a
\* JSON string; the other fields keep their JSON shapes.
to_string_pretty(st) ==
    [url |-> st.url, total_size |-> st.total_size,
     etag |-> IF st.etag = None THEN <<"null">> ELSE <<"string", st.etag[1]>>,
     chunks |-> st.chunks]

\* serde_json::from_str on a complete document written by to_string_pretty.
from_str(json) ==
    DownloadState(json.url, json.total_size,
                  IF json.etag[1] = "null" THEN None ELSE Some(json.etag[2]),
                  json.chunks)

NoJson == to_string_pretty(NoState)

\* The sidecar file: absent, present with a complete JSON document, or
\* present but cut short (File::create truncated it and the document has
\* not been written in full); a cut-short document does not parse.
SidecarAbsent == [st |-> "absent", json |-> NoJson]

SidecarTorn == [st |-> "torn", json |-> NoJson]

SidecarJson(json) == [st |-> "json", json |-> json]

\* The output file: existence, length and the chunk ranges holding body
\* bytes written by chunk tasks (the rest is the zero fill of set_len).
OutputAbsent == [exists |-> FALSE, len |-> 0, data |-> {}]

OutputCreated == [exists |-> TRUE, len |-> 0, data |-> {}]

\* Variant of write_all: the flag path runs although the body never reached
\* the file.
write_all_lost(out, chunk) == out

\* file.seek(Start(chunk.start)); file.write_all(&data): a body of exactly
\* the requested length lands on [start, end].
write_all(out, chunk) ==
    [out EXCEPT !.len = Max(out.len, chunk.end + 1),
                !.data = out.data \cup {<<chunk.start, chunk.end>>}]

\* ------------------------------------------------------------- executor
\* Variant of identity_mismatch: a missing tag on either side is taken to
\* match any tag.
identity_mismatch_lenient(st, total_size, url, current_etag) ==
    st.total_size # total_size \/ st.url # url
        \/ (st.etag # None /\ current_etag # None /\ st.etag # current_etag)

\* state.total_size != total_size || &state.url != url || state.etag != current_etag
identity_mismatch(st, total_size, url, current_etag) ==
    st.total_size # total_size \/ st.url # url \/ st.etag # current_etag

\* Variant of pending_chunks: the filter is dropped.
pending_chunks_unfiltered(chunks) == 1..Len(chunks)

\* .filter(|(_, chunk)| ready(!chunk.completed)) over the cloned chunk list
pending_chunks(chunks) == {i \in 1..Len(chunks) : ~chunks[i].completed}

\* Variant of buffer_limit: the sequential case gets the parallel width.
buffer_limit_wide(is_multipart) == PARALLEL_LIMIT

\* .buffer_unordered(if is_multipart { 8 } else { 1 })
buffer_limit(is_multipart) == IF is_multipart THEN PARALLEL_LIMIT ELSE SEQUENTIAL_LIMIT

\* The checks a chunk task makes on its response before reading the body.
chunk_response_error(status, chunk_content_type, expected_content_type) ==
    IF status # 206 /\ status # 200 THEN "HttpError"
    ELSE IF chunk_content_type # expected_content_type THEN "ContentTypeMismatch"
    ELSE "none"

\* `if let Err(e) = result { has_error = true }` over the collected
\* JoinHandle outputs: only the outer Err (a JoinError) matches; the
\* task's own Result<(), DownloadError> sits inside Ok(..) and is not
\* looked at.
result_is_err(r) == r = "JoinError"

VARIABLES
    sidecar,     \* the sidecar file on disk
    output,      \* the output file on disk
    rpc,         \* position of run_download
    args,        \* arguments of the current run_download call
    state,       \* the in-memory DownloadState
    snapshot,    \* state.chunks.clone() the task stream iterates over
    task,        \* per chunk index: position of its task
    res,         \* per chunk index: what its JoinHandle yields
    lock,        \* holder of the state mutex (0: free)
    rret,        \* return value of run_download
    mode,        \* branch taken by reconciliation
    reqs,        \* per chunk index: ranged GETs issued in this run
    writes,      \* per chunk index: output writes done in this run
    dpc,         \* position of dispatch ("off": run_download is called directly)
    durl,        \* url argument of dispatch
    attempt,     \* loop variable of the probe loop
    last_error,  \* Option<DispatchError> of the probe loop
    probe_res,   \* the probe response being examined
    probes,      \* probe requests sent by this dispatch call
    sleeps,      \* backoff sleeps (seconds) done by this dispatch call
    callee,      \* executor entry point chosen by this dispatch call
    dret,        \* return value of dispatch
    spc,         \* position of the stream fallback
    frames,      \* body frames written by the stream fallback
    sres         \* status of the response the stream fallback holds (0: none)

evars == <<rpc, args, state, snapshot, task, res, lock, rret, mode, reqs, writes>>

dvars == <<dpc, durl, attempt, last_error, probe_res, probes, sleeps, callee, dret>>

svars == <<spc, frames, sres>>

vars == <<sidecar, output, evars, dvars, svars>>

NoArgs == [url |-> <<>>, total_size |-> 0, etag |-> None, content_type |-> None, is_multipart |-> FALSE]

Zeros(n) == [i \in 1..n |-> 0]

Fill(n, v) == [i \in 1..n |-> v]

NoProbe == [status |-> 0, etag |-> None, content_type |-> None,
            content_range |-> None, content_length |-> None, accept_ranges |-> None]

ExecutorIdle ==
    /\ rpc = "idle" /\ args = NoArgs /\ state = NoState /\ snapshot = <<>>
    /\ task = <<>> /\ res = <<>> /\ lock = 0 /\ rret = "none" /\ mode = "none"
    /\ reqs = <<>> /\ writes = <<>>

StreamIdle == spc = "idle" /\ frames = 0 /\ sres = 0

\* Result<(), DispatchError>: kind "Ok", or the error variant with its
\* payload (a status for HttpError, the executor's error for Http).
Result(kind, status, inner) == [kind |-> kind, status |-> status, inner |-> inner]

NoResult == Result("none", 0, "none")

DispatchCleared ==
    /\ durl = <<>> /\ attempt = 0 /\ last_error = None /\ probe_res = NoProbe
    /\ probes = 0 /\ sleeps = <<>> /\ callee = "none" /\ dret = NoResult

\* A fresh process and an empty directory; run_download is driven directly
\* (download_multipart and download_sequential are public entry points).
Init ==
    /\ sidecar = SidecarAbsent
    /\ output = OutputAbsent
    /\ ExecutorIdle
    /\ StreamIdle
    /\ dpc = "off"
    /\ DispatchCleared

\* Entry into run_download with its arguments bound.
EnterRun(url, total_size, etag, content_type, is_multipart) ==
    /\ rpc = "idle"
    /\ rpc' = "start"
    /\ args' = [url |-> url, total_size |-> total_size, etag |-> etag,
                content_type |-> content_type, is_multipart |-> is_multipart]
    /\ UNCHANGED <<state, snapshot, task, res, lock, rret, mode, reqs, writes>>

\* Entering the fetch phase: line 172-174, the state goes behind the mutex
\* and its chunk list is cloned into the task stream.
BeginFetch(st) ==
    /\ state' = st
    /\ snapshot' = st.chunks
    /\ task' = Fill(Len(st.chunks), "Q")
    /\ res' = Fill(Len(st.chunks), "none")
    /\ reqs' = Zeros(Len(st.chunks))
    /\ writes' = Zeros(Len(st.chunks))
    /\ rpc' = "fetch"

\* lines 125-129: state_path.exists(), read, serde_json::from_str(..)?
LoadSidecar ==
    /\ rpc = "start"
    /\ CASE sidecar.st = "absent" ->
              /\ rpc' = "fresh_create" /\ mode' = "fresh"
              /\ UNCHANGED <<state, rret>>
         [] sidecar.st = "torn" ->
              /\ rpc' = "returned" /\ rret' = "JsonError"
              /\ UNCHANGED <<state, mode>>
         [] sidecar.st = "json" ->
              /\ state' = from_str(sidecar.json)
              /\ rpc' = "compare"
              /\ UNCHANGED <<rret, mode>>
    /\ UNCHANGED <<sidecar, output, args, snapshot, task, res, lock, reqs, writes, dvars, svars>>

\* line 131 and the warm branch, lines 147-153
Compare ==
    /\ rpc = "compare"
    /\ IF identity_mismatch(state, args.total_size, args.url, args.etag)
       THEN /\ rpc' = "cold_rm_sidecar" /\ mode' = "cold"
            /\ UNCHANGED <<state, snapshot, task, res, reqs, writes>>
       ELSE /\ mode' = "warm"
            /\ BeginFetch(state)
    /\ UNCHANGED <<sidecar, output, args, lock, rret, dvars, svars>>

\* lines 132-134
ColdRemoveSidecar ==
    /\ rpc = "cold_rm_sidecar"
    /\ sidecar' = SidecarAbsent
    /\ rpc' = "cold_rm_output"
    /\ UNCHANGED <<output, args, state, snapshot, task, res, lock, rret, mode, reqs, writes, dvars, svars>>

\* lines 135-137
ColdRemoveOutput ==
    /\ rpc = "cold_rm_output"
    /\ output' = OutputAbsent
    /\ rpc' = "cold_create"
    /\ UNCHANGED <<sidecar, args, state, snapshot, task, res, lock, rret, mode, reqs, writes, dvars, svars>>

\* File::create(&path)?: lines 145 and 162
CreateOutput ==
    /\ rpc \in {"cold_create", "fresh_create"}
    /\ output' = OutputCreated
    /\ rpc' = "set_len"
    /\ UNCHANGED <<sidecar, args, state, snapshot, task, res, lock, rret, mode, reqs, writes, dvars, svars>>

\* file.set_len(total_size)?: lines 146 and 164, with the new state of
\* lines 138-144 and 155-161
SetLen ==
    /\ rpc = "set_len"
    /\ output' = [output EXCEPT !.len = args.total_size]
    /\ BeginFetch(DownloadState(args.url, args.total_size, args.etag,
                                create_chunks(args.total_size, args.is_multipart)))
    /\ UNCHANGED <<sidecar, args, lock, rret, mode, dvars, svars>>

\* ------------------------------------------------------------ chunk tasks
Pending == pending_chunks(snapshot)

\* futures held by buffer_unordered: spawned and not yet yielded
Buffered == {i \in 1..Len(task) : task[i] \in {"S", "W", "T", "D"}}

\* chunk tasks started and not yet finished
InFlight == {i \in 1..Len(task) : task[i] \in {"S", "W", "T"}}

Unspawned == {i \in Pending : task[i] = "Q"}

\* buffer_unordered pulls the next stream item, whose map closure calls
\* tokio::spawn, only while it holds fewer than its limit; the spawned task
\* sends its ranged GET (lines 185-191).
Spawn ==
    /\ rpc = "fetch"
    /\ Unspawned # {}
    /\ Cardinality(Buffered) < buffer_limit(args.is_multipart)
    /\ LET i == CHOOSE j \in Unspawned : \A k \in Unspawned : j <= k
       IN  /\ task' = [task EXCEPT ![i] = "S"]
           /\ reqs' = [reqs EXCEPT ![i] = @ + 1]
    /\ UNCHANGED <<sidecar, output, rpc, args, state, snapshot, res, lock, rret, mode, writes, dvars, svars>>

\* A task made by tokio::spawn (line 185) is owned by the runtime: it runs
\* while run_download waits in collect() and also after the future of
\* run_download, and with it the JoinHandle, has been dropped.
TasksRun == rpc \in {"fetch", "dropped"}

\* client.send().await? fails at the transport level (line 191)
TaskNetworkError(i) ==
    /\ TasksRun
    /\ task[i] = "S"
    /\ task' = [task EXCEPT ![i] = "D"]
    /\ res' = [res EXCEPT ![i] = "NetworkError"]
    /\ UNCHANGED <<sidecar, output, rpc, args, state, snapshot, lock, rret, mode, reqs, writes, dvars, svars>>

\* The task panics or is cancelled by the runtime: its JoinHandle yields
\* Err(JoinError).
TaskJoinError(i) ==
    /\ TasksRun
    /\ task[i] = "S"
    /\ task' = [task EXCEPT ![i] = "D"]
    /\ res' = [res EXCEPT ![i] = "JoinError"]
    /\ UNCHANGED <<sidecar, output, rpc, args, state, snapshot, lock, rret, mode, reqs, writes, dvars, svars>>

\* A response arrives (lines 194-216): status and Content-Type checks, body
\* read, then in spawn_blocking the output file is opened and the body
\* written at chunk.start.
TaskResponse(i, status, chunk_content_type) ==
    /\ TasksRun
    /\ task[i] = "S"
    /\ LET err == chunk_response_error(status, chunk_content_type, args.content_type)
       IN  IF err # "none"
           THEN /\ task' = [task EXCEPT ![i] = "D"]
                /\ res' = [res EXCEPT ![i] = err]
                /\ UNCHANGED <<output, writes>>
           ELSE IF ~output.exists
           THEN /\ task' = [task EXCEPT ![i] = "D"]
                /\ res' = [res EXCEPT ![i] = "FileError"]
                /\ UNCHANGED <<output, writes>>
           ELSE /\ output' = write_all(output, snapshot[i])
                /\ writes' = [writes EXCEPT ![i] = @ + 1]
                /\ task' = [task EXCEPT ![i] = "W"]
                /\ UNCHANGED res
    /\ UNCHANGED <<sidecar, rpc, args, state, snapshot, lock, rret, mode, reqs, dvars, svars>>

\* Variant of flip_completed: the task works on the chunk list it was
\* spawned with instead of the shared one.
flip_completed_stale(st, i) ==
    [st EXCEPT !.chunks = [snapshot EXCEPT ![i].completed = TRUE]]

\* state_lock.chunks[i].completed = true, on the shared record
flip_completed(st, i) == [st EXCEPT !.chunks[i].completed = TRUE]

\* lines 219-222: take the mutex, flip the flag, serialize, File::create the
\* sidecar (which truncates it).
TaskLock(i) ==
    /\ TasksRun
    /\ task[i] = "W"
    /\ lock = 0
    /\ lock' = i
    /\ state' = flip_completed(state, i)
    /\ sidecar' = SidecarTorn
    /\ task' = [task EXCEPT ![i] = "T"]
    /\ UNCHANGED <<output, rpc, args, snapshot, res, rret, mode, reqs, writes, dvars, svars>>

\* lines 223-226: write the document, drop the guard, Ok(())
TaskPersist(i) ==
    /\ TasksRun
    /\ task[i] = "T"
    /\ lock = i
    /\ sidecar' = SidecarJson(to_string_pretty(state))
    /\ lock' = 0
    /\ task' = [task EXCEPT ![i] = "D"]
    /\ res' = [res EXCEPT ![i] = "Ok"]
    /\ UNCHANGED <<output, rpc, args, state, snapshot, rret, mode, reqs, writes, dvars, svars>>

\* buffer_unordered yields a finished JoinHandle's output to collect()
Collect(i) ==
    /\ rpc = "fetch"
    /\ task[i] = "D"
    /\ task' = [task EXCEPT ![i] = "C"]
    /\ UNCHANGED <<sidecar, output, rpc, args, state, snapshot, res, lock, rret, mode, reqs, writes, dvars, svars>>

\* Variant of Finalize: a run that had no chunk to fetch returns Ok and
\* leaves the sidecar in place.
FinalizeKeepsIdleSidecar ==
    /\ rpc = "fetch"
    /\ \A i \in Pending : task[i] = "C"
    /\ LET has_error == \E i \in Pending : result_is_err(res[i])
       IN  IF has_error
           THEN /\ rret' = "ChunkDownloadFailed"
                /\ UNCHANGED sidecar
           ELSE IF Pending = {}
           THEN /\ rret' = "Ok"
                /\ UNCHANGED sidecar
           ELSE IF sidecar.st = "absent"
           THEN /\ rret' = "FileError"
                /\ UNCHANGED sidecar
           ELSE /\ sidecar' = SidecarAbsent
                /\ rret' = "Ok"
    /\ rpc' = "returned"
    /\ UNCHANGED <<output, args, state, snapshot, task, res, lock, mode, reqs, writes, dvars, svars>>

\* lines 238-255: collect() has returned every result
Finalize ==
    /\ rpc = "fetch"
    /\ \A i \in Pending : task[i] = "C"
    /\ LET has_error == \E i \in Pending : result_is_err(res[i])
       IN  IF has_error
           THEN /\ rret' = "ChunkDownloadFailed"
                /\ UNCHANGED sidecar
           ELSE IF sidecar.st = "absent"
           THEN /\ rret' = "FileError"
                /\ UNCHANGED sidecar
           ELSE /\ sidecar' = SidecarAbsent
                /\ rret' = "Ok"
    /\ rpc' = "returned"
    /\ UNCHANGED <<output, args, state, snapshot, task, res, lock, mode, reqs, writes, dvars, svars>>

ResetExecutor ==
    /\ rpc' = "idle" /\ args' = NoArgs /\ state' = NoState /\ snapshot' = <<>>
    /\ task' = <<>> /\ res' = <<>> /\ lock' = 0 /\ rret' = "none" /\ mode' = "none"
    /\ reqs' = <<>> /\ writes' = <<>>

\* The embedder drops the future of the call while run_download waits in
\* collect() (line 233); dispatch awaits run_download inline, so its frame
\* goes with it. The stream of JoinHandles is dropped: nothing more is
\* spawned or collected, and the result loop is never reached.
DropCall ==
    /\ rpc = "fetch"
    /\ rpc' = "dropped"
    /\ dpc' = (IF dpc = "off" THEN "off" ELSE "idle")
    /\ durl' = <<>> /\ attempt' = 0 /\ last_error' = None /\ probe_res' = NoProbe
    /\ probes' = 0 /\ sleeps' = <<>> /\ callee' = "none" /\ dret' = NoResult
    /\ UNCHANGED <<sidecar, output, args, state, snapshot, task, res, lock, rret, mode, reqs, writes, svars>>

\* The last detached task has ended: the shared record is freed.
TasksDrained ==
    /\ rpc = "dropped"
    /\ InFlight = {}
    /\ ResetExecutor
    /\ UNCHANGED <<sidecar, output, dvars, svars>>

\* ---------------------------------------------------- direct use of run
\* download_multipart (is_multipart = true) or download_sequential with a
\* known size (is_multipart = false), lines 57-78
HarnessCall ==
    /\ dpc = "off"
    /\ \E url \in Urls, total_size \in Sizes, etag \in ETags,
          content_type \in ContentTypes, is_multipart \in BOOLEAN :
          EnterRun(url, total_size, etag, content_type, is_multipart)
    /\ UNCHANGED <<sidecar, output, dvars, svars>>

\* The caller takes the result; the process is ready for the next call.
HarnessReturn ==
    /\ dpc = "off"
    /\ rpc = "returned"
    /\ ResetExecutor
    /\ UNCHANGED <<sidecar, output, dvars, svars>>

\* The process dies at any point of a call: memory is lost, the files stay
\* as they are.
Crash ==
    /\ rpc # "idle" \/ spc # "idle" \/ dpc \notin {"off", "idle"}
    /\ ResetExecutor
    /\ spc' = "idle" /\ frames' = 0 /\ sres' = 0
    /\ dpc' = (IF dpc = "off" THEN "off" ELSE "idle")
    /\ durl' = <<>> /\ attempt' = 0 /\ last_error' = None /\ probe_res' = NoProbe
    /\ probes' = 0 /\ sleeps' = <<>> /\ callee' = "none" /\ dret' = NoResult
    /\ UNCHANGED <<sidecar, output>>

TaskStep ==
    \E i \in 1..Len(task) :
        \/ TaskNetworkError(i)
        \/ TaskJoinError(i)
        \/ \E status \in ChunkStatuses, ct \in ChunkContentTypes : TaskResponse(i, status, ct)
        \/ TaskLock(i)
        \/ TaskPersist(i)
        \/ Collect(i)

Reconcile ==
    \/ LoadSidecar
    \/ Compare
    \/ ColdRemoveSidecar
    \/ ColdRemoveOutput
    \/ CreateOutput
    \/ SetLen

Next ==
    \/ HarnessCall
    \/ Reconcile
    \/ Spawn
    \/ TaskStep
    \/ Finalize
    \/ HarnessReturn
    \/ Crash

Spec == Init /\ [][Next]_vars

\* run_download driven directly, with calls that the embedder may drop
NextCancel ==
    \/ Next
    \/ DropCall
    \/ TasksDrained

SpecCancel == Init /\ [][NextCancel]_vars

\* ------------------------------------------------------- stream fallback
\* download_sequential with total_size = None, lines 79-109.
StreamStatuses == {200, 404}

\* Variant of is_success: every status passes.
is_success_any(status) == TRUE

\* StatusCode::is_success: 200..=299
is_success(status) == 200 <= status /\ status <= 299

\* client.get(url).send().await?, line 83: a transport failure returns at
\* once, otherwise the response is held
StreamGet ==
    /\ spc = "get"
    /\ \/ /\ spc' = "idle"
          /\ dret' = Result("Http", 0, "NetworkError")
          /\ dpc' = "returned"
          /\ UNCHANGED sres
       \/ \E status \in StreamStatuses :
             /\ sres' = status
             /\ spc' = "got"
             /\ UNCHANGED <<dret, dpc>>
    /\ UNCHANGED <<sidecar, output, evars, frames, durl, attempt, last_error, probe_res, probes, sleeps, callee>>

\* the status check, lines 84-86
StreamCheck ==
    /\ spc = "got"
    /\ IF is_success(sres)
       THEN spc' = "create" /\ UNCHANGED <<dret, dpc, sres>>
       ELSE /\ spc' = "idle"
            /\ dret' = Result("Http", sres, "HttpError")
            /\ dpc' = "returned"
            /\ sres' = 0
    /\ UNCHANGED <<sidecar, output, evars, frames, durl, attempt, last_error, probe_res, probes, sleeps, callee>>

\* File::create(path)?, line 98
StreamCreate ==
    /\ spc = "create"
    /\ output' = OutputCreated
    /\ spc' = "body"
    /\ UNCHANGED <<sidecar, evars, dvars, frames, sres>>

\* one turn of `while let Some(chunk) = res.chunk().await?`, lines 101-105:
\* a frame is appended, the body ends, or the transport fails
StreamBody ==
    /\ spc = "body"
    /\ \/ /\ frames < MaxFrames
          /\ frames' = frames + 1
          /\ output' = [output EXCEPT !.len = @ + 1, !.data = {<<0, output.len>>}]
          /\ UNCHANGED <<spc, dret, dpc, sres>>
       \/ /\ spc' = "idle" /\ frames' = 0 /\ sres' = 0
          /\ dret' = Result("Ok", 0, "none")
          /\ dpc' = "returned"
          /\ UNCHANGED output
       \/ /\ spc' = "idle" /\ frames' = 0 /\ sres' = 0
          /\ dret' = Result("Http", 0, "NetworkError")
          /\ dpc' = "returned"
          /\ UNCHANGED output
    /\ UNCHANGED <<sidecar, evars, durl, attempt, last_error, probe_res, probes, sleeps, callee>>

\* ------------------------------------------------------------ dispatcher
UFtp == <<"ftp", "://", "host/a">>

DispatchUrls == {U1, UFtp}

\* Variant of starts_with: the prefix test always succeeds.
starts_with_any(url, prefix) == TRUE

\* url.starts_with(prefix), both as sequences of lexical pieces
starts_with(url, prefix) ==
    Len(url) >= Len(prefix) /\ SubSeq(url, 1, Len(prefix)) = prefix

\* A header value is visible ASCII text or arbitrary bytes; a decimal
\* number in a text is its value, or "overflow" when it exceeds u64::MAX.
Ascii(text) == [ascii |-> TRUE, text |-> text]

Binary == [ascii |-> FALSE, text |-> <<>>]

Digits(n) == [digits |-> TRUE, fits |-> TRUE, val |-> n]

DigitsOverflow == [digits |-> TRUE, fits |-> FALSE, val |-> 0]

NotDigits == [digits |-> FALSE, fits |-> FALSE, val |-> 0]

\* "<unit> <first>-<last>/<size>"
RangeText(unit, first, last, size) == <<unit, first, last, size>>

\* headers.get(H).and_then(|v| v.to_str().ok())
to_str(header) ==
    IF header = None THEN None
    ELSE IF header[1].ascii THEN Some(header[1].text) ELSE None

\* str::parse::<u64>().ok()
parse_u64(num) == IF num.digits /\ num.fits THEN Some(num.val) ELSE None

\* Regex bytes \d+-\d+/(\d+), then parse().ok() of group 1, lines 39-43 of
\* rdownloader-utils
parse_content_range(range_str) ==
    IF range_str[1] = "bytes" /\ range_str[2].digits /\ range_str[3].digits
          /\ range_str[4].digits
    THEN parse_u64(range_str[4])
    ELSE None

\* probe_res.status().is_success() || probe_res.status() == 206
probe_ok(status) == is_success(status) \/ status = 206

\* Variant of exceeds_multipart_min: the threshold itself counts as large.
exceeds_multipart_min_inclusive(size) == size >= MIN_SIZE_FOR_MULTIPART

\* size > MIN_SIZE_FOR_MULTIPART
exceeds_multipart_min(size) == size > MIN_SIZE_FOR_MULTIPART

\* headers.get(ACCEPT_RANGES).map_or(false, |v| v == "bytes")
accepts_byte_ranges(header) ==
    IF header = None THEN FALSE
    ELSE header[1].ascii /\ header[1].text = "bytes"

Choice(fn, size) == [callee |-> fn, total_size |-> size]

\* lines 66-119: which executor entry point the probe response selects,
\* and with which total_size
select_download(r) ==
    LET range_str == to_str(r.content_range)
        by_range  == IF range_str = None THEN None ELSE parse_content_range(range_str[1])
        size_str  == to_str(r.content_length)
        by_length == IF size_str = None THEN None ELSE parse_u64(size_str[1])
    IN  IF by_range # None
        THEN IF exceeds_multipart_min(by_range[1])
             THEN Choice("download_multipart", by_range)
             ELSE Choice("download_sequential", by_range)
        ELSE IF by_length # None
        THEN IF accepts_byte_ranges(r.accept_ranges) /\ exceeds_multipart_min(by_length[1])
             THEN Choice("download_multipart", by_length)
             ELSE Choice("download_sequential", by_length)
        ELSE Choice("download_sequential", None)

\* Variant of backoff_secs: the exponent is the attempt number.
backoff_secs_late(n) == PROBE_INITIAL_BACKOFF_SECS * 2 ^ n

\* PROBE_INITIAL_BACKOFF_SECS * 2_u64.pow(attempt - 1)
backoff_secs(n) == PROBE_INITIAL_BACKOFF_SECS * 2 ^ (n - 1)

\* Sizes a probe can report: the multipart threshold and one byte more.
ProbeSizes == {MIN_SIZE_FOR_MULTIPART, MIN_SIZE_FOR_MULTIPART + 1}

ProbeStatuses == {200, 206, 404, 503}

ContentRanges ==
    {None, Some(Binary),
     Some(Ascii(RangeText("bytes", NotDigits, NotDigits, Digits(MIN_SIZE_FOR_MULTIPART + 1)))),
     Some(Ascii(RangeText("bytes", Digits(0), Digits(1), DigitsOverflow)))}
    \cup {Some(Ascii(RangeText("bytes", Digits(0), Digits(1), Digits(n)))) : n \in ProbeSizes}

ContentLengths ==
    {None, Some(Ascii(NotDigits))} \cup {Some(Ascii(Digits(n))) : n \in ProbeSizes}

AcceptRanges == {None, Some(Ascii("bytes")), Some(Ascii("none"))}

TextHeader(opt) == IF opt = None THEN None ELSE Some(Ascii(opt[1]))

ProbeResponses ==
    [status : ProbeStatuses,
     etag : {TextHeader(e) : e \in ETags},
     content_type : {TextHeader(c) : c \in ContentTypes},
     content_range : ContentRanges,
     content_length : ContentLengths,
     accept_ranges : AcceptRanges]

\* The embedder calls dispatch; lines 39-44.
DispatchCall(url) ==
    /\ dpc = "idle"
    /\ durl' = url
    /\ IF ~starts_with(url, <<"http", "://">>) /\ ~starts_with(url, <<"https", "://">>)
       THEN /\ dret' = Result("UnsupportedProtocol", 0, "none")
            /\ dpc' = "returned"
            /\ UNCHANGED attempt
       ELSE /\ attempt' = 1
            /\ dpc' = "probe"
            /\ UNCHANGED dret
    /\ UNCHANGED <<sidecar, output, evars, svars, last_error, probe_res, probes, sleeps, callee>>

\* Variant of ProbeNetworkError: a transport failure is recorded like an
\* error status and the loop sleeps before another attempt.
ProbeNetworkErrorRetried ==
    /\ dpc = "probe"
    /\ probes' = probes + 1
    /\ last_error' = Some(Result("Network", 0, "none"))
    /\ IF attempt < PROBE_MAX_RETRIES
       THEN /\ sleeps' = Append(sleeps, backoff_secs(attempt))
            /\ dpc' = "sleep"
            /\ UNCHANGED dret
       ELSE /\ dret' = Result("Network", 0, "none")
            /\ dpc' = "returned"
            /\ UNCHANGED sleeps
    /\ UNCHANGED <<sidecar, output, evars, svars, durl, attempt, probe_res, callee>>

\* line 50: the probe request is sent; `?` returns a transport failure
ProbeNetworkError ==
    /\ dpc = "probe"
    /\ probes' = probes + 1
    /\ dret' = Result("Network", 0, "none")
    /\ dpc' = "returned"
    /\ UNCHANGED <<sidecar, output, evars, svars, durl, attempt, last_error, probe_res, sleeps, callee>>

\* line 50: the probe request is sent and a response comes back
ProbeResponse(r) ==
    /\ dpc = "probe"
    /\ probes' = probes + 1
    /\ probe_res' = r
    /\ dpc' = "got"
    /\ UNCHANGED <<sidecar, output, evars, svars, durl, attempt, last_error, sleeps, callee, dret>>

\* lines 53-119: a success status; the metadata is extracted, the entry
\* point selected and called
ProbeSucceeded ==
    /\ dpc = "got"
    /\ probe_ok(probe_res.status)
    /\ LET sel == select_download(probe_res)
           etag == to_str(probe_res.etag)
           content_type == to_str(probe_res.content_type)
       IN  /\ callee' = sel.callee
           /\ IF sel.total_size # None
              THEN /\ EnterRun(durl, sel.total_size[1], etag, content_type,
                               sel.callee = "download_multipart")
                   /\ UNCHANGED svars
              ELSE /\ spc' = "get"
                   /\ UNCHANGED <<evars, frames, sres>>
    /\ dpc' = "running"
    /\ probe_res' = NoProbe
    /\ UNCHANGED <<sidecar, output, durl, attempt, last_error, probes, sleeps, dret>>

\* lines 120-131 and 135: an error status is recorded; the loop sleeps
\* before another attempt or ends
ProbeFailed ==
    /\ dpc = "got"
    /\ ~probe_ok(probe_res.status)
    /\ LET err == Some(Result("HttpError", probe_res.status, "none"))
       IN  /\ last_error' = err
           /\ IF attempt < PROBE_MAX_RETRIES
              THEN /\ sleeps' = Append(sleeps, backoff_secs(attempt))
                   /\ dpc' = "sleep"
                   /\ UNCHANGED dret
              ELSE /\ dret' = (IF err # None THEN err[1]
                               ELSE Result("DownloadFailed", 0, "none"))
                   /\ dpc' = "returned"
                   /\ UNCHANGED sleeps
    /\ probe_res' = NoProbe
    /\ UNCHANGED <<sidecar, output, evars, svars, durl, attempt, probes, callee>>

\* the sleep ends and the loop moves to the next attempt
ProbeRetry ==
    /\ dpc = "sleep"
    /\ attempt' = attempt + 1
    /\ dpc' = "probe"
    /\ UNCHANGED <<sidecar, output, evars, svars, durl, last_error, probe_res, probes, sleeps, callee, dret>>

\* run_download has returned: `Ok(download_x(..).await?)`
RunReturns ==
    /\ dpc = "running"
    /\ rpc = "returned"
    /\ dret' = (IF rret = "Ok" THEN Result("Ok", 0, "none") ELSE Result("Http", 0, rret))
    /\ dpc' = "returned"
    /\ ResetExecutor
    /\ UNCHANGED <<sidecar, output, svars, durl, attempt, last_error, probe_res, probes, sleeps, callee>>

\* The embedder takes the result; dispatch may be called again.
DispatchReturn ==
    /\ dpc = "returned"
    /\ dpc' = "idle"
    /\ durl' = <<>> /\ attempt' = 0 /\ last_error' = None /\ probe_res' = NoProbe
    /\ probes' = 0 /\ sleeps' = <<>> /\ callee' = "none" /\ dret' = NoResult
    /\ UNCHANGED <<sidecar, output, evars, svars>>

InitDispatch ==
    /\ sidecar = SidecarAbsent
    /\ output = OutputAbsent
    /\ ExecutorIdle
    /\ StreamIdle
    /\ dpc = "idle"
    /\ DispatchCleared

Probe ==
    \/ ProbeNetworkError
    \/ \E r \in ProbeResponses : ProbeResponse(r)
    \/ ProbeSucceeded
    \/ ProbeFailed
    \/ ProbeRetry

Stream ==
    \/ StreamGet
    \/ StreamCheck
    \/ StreamCreate
    \/ StreamBody

NextDispatch ==
    \/ \E url \in DispatchUrls : DispatchCall(url)
    \/ Probe
    \/ Reconcile
    \/ Spawn
    \/ TaskStep
    \/ Finalize
    \/ RunReturns
    \/ Stream
    \/ DispatchReturn
    \/ Crash

SpecDispatch == InitDispatch /\ [][NextDispatch]_vars

\* ------------------------------------------------- bounded-concurrency runs
\* One more chunk than the parallel limit can hold in flight, after the
\* first chunk of the plan.
CapSize == (PARALLEL_LIMIT + 1) * MiB + 1

CapPlan == create_chunks(CapSize, TRUE)

\* The files as a crashed parallel download of CapSize bytes leaves them
\* once its first chunk has been persisted.
InitCap ==
    /\ sidecar = SidecarJson(to_string_pretty(
                    DownloadState(U1, CapSize, None,
                                  [CapPlan EXCEPT ![1].completed = TRUE])))
    /\ output = [exists |-> TRUE, len |-> CapSize,
                 data |-> {<<CapPlan[1].start, CapPlan[1].end>>}]
    /\ ExecutorIdle
    /\ StreamIdle
    /\ dpc = "off"
    /\ DispatchCleared

\* The download is resumed, by download_multipart or download_sequential.
CapCall ==
    /\ dpc = "off"
    /\ \E is_multipart \in BOOLEAN : EnterRun(U1, CapSize, None, None, is_multipart)
    /\ UNCHANGED <<sidecar, output, dvars, svars>>

\* The server answers every ranged GET with 206 and the probed type.
CapTaskStep ==
    \E i \in 1..Len(task) :
        \/ TaskResponse(i, 206, args.content_type)
        \/ TaskLock(i)
        \/ TaskPersist(i)
        \/ Collect(i)

NextCap ==
    \/ CapCall
    \/ LoadSidecar
    \/ Compare
    \/ Spawn
    \/ CapTaskStep
    \/ Finalize

SpecCap == InitCap /\ [][NextCap]_vars

\* ------------------------------------------------------ the planner alone
\* create_chunks called on its own over a range of sizes around every
\* multiple of the chunk size, zero included.
PlanSizes ==
    {s \in {k * MiB + d : k \in 0..MaxPlanMiB, d \in {-1, 0, 1}} : s >= 0}

InitPlan ==
    /\ sidecar = SidecarAbsent
    /\ output = OutputAbsent
    /\ rpc = "plan"
    /\ \E total_size \in PlanSizes, is_multipart \in BOOLEAN :
          args = [NoArgs EXCEPT !.total_size = total_size, !.is_multipart = is_multipart]
    /\ state = NoState /\ snapshot = <<>>
    /\ task = <<>> /\ res = <<>> /\ lock = 0 /\ rret = "none" /\ mode = "none"
    /\ reqs = <<>> /\ writes = <<>>
    /\ StreamIdle
    /\ dpc = "off"
    /\ DispatchCleared

\* create_chunks(total_size, is_multipart) runs, in a build with or without
\* overflow checks; snapshot receives the returned chunk list.
PlanCall ==
    /\ rpc = "plan"
    /\ \E overflow_checks \in BOOLEAN :
          IF create_chunks_panics(args.total_size, args.is_multipart, overflow_checks)
          THEN rpc' = "panicked" /\ UNCHANGED snapshot
          ELSE /\ snapshot' = create_chunks(args.total_size, args.is_multipart)
               /\ rpc' = "planned"
    /\ UNCHANGED <<sidecar, output, args, state, task, res, lock, rret, mode, reqs, writes, dvars, svars>>

NextPlan == PlanCall

SpecPlan == InitPlan /\ [][NextPlan]_vars

\* ===================================================================
\* Properties
\* ===================================================================
AllCompleted(chunks) == \A i \in 1..Len(chunks) : chunks[i].completed

Range(chunk) == <<chunk.start, chunk.end>>

\* C1: immediately after a non-success return of run_download the sidecar
\* exists on disk, and immediately after a success return it does not.
C1_SidecarRemovalSuccessOnly ==
    rpc = "returned" =>
        IF rret = "Ok" THEN sidecar.st = "absent" ELSE sidecar.st # "absent"

\* C2: every chunk the on-disk sidecar marks completed has its bytes in the
\* output file at its offset, in every state, across crashes and runs.
C2_WriteBeforeFlag ==
    sidecar.st = "json" =>
        \A i \in 1..Len(sidecar.json.chunks) :
            sidecar.json.chunks[i].completed =>
                output.exists /\ Range(sidecar.json.chunks[i]) \in output.data

C2_Witness ==
    /\ mode = "warm" /\ rpc = "fetch" /\ sidecar.st = "json"
    /\ \E i \in 1..Len(snapshot) : snapshot[i].completed
    /\ \E i \in 1..Len(snapshot) :
          ~snapshot[i].completed /\ sidecar.json.chunks[i].completed

\* C3: run_download removes the sidecar only in a state where every chunk
\* of the resume record has completed = true.
C3_RemoveOnlyWhenAllCompleted ==
    [][(rpc = "fetch" /\ sidecar.st # "absent" /\ sidecar'.st = "absent")
          => AllCompleted(state.chunks)]_vars

\* C4: a run that finds the sidecar present but unparseable takes the cold
\* restart path instead of returning an error.
C4_TornSidecarColdRestart ==
    [][(rpc = "start" /\ sidecar.st = "torn" /\ rpc' # "idle")
          => (rpc' = "cold_rm_sidecar" /\ rret' = "none")]_vars

\* The identity comparison in the words of the claim.
TagsDiffer(a, b) ==
    CASE a = None /\ b = None -> FALSE
      [] a = None /\ b # None -> TRUE
      [] a # None /\ b = None -> TRUE
      [] OTHER -> a[1] # b[1]

RecordDiffers ==
    \/ state.total_size # args.total_size
    \/ state.url # args.url
    \/ TagsDiffer(state.etag, args.etag)

NoTaskStarted == \A i \in 1..Len(task) : task[i] = "Q"

C5_ColdState ==
    (mode = "cold" /\ rpc = "fetch") =>
        /\ state.url = args.url /\ state.total_size = args.total_size
        /\ state.etag = args.etag
        /\ Len(snapshot) > 0
        /\ \A i \in 1..Len(snapshot) : ~snapshot[i].completed
        /\ output.exists /\ output.len = args.total_size
        /\ output.data = {Range(snapshot[i]) : i \in {j \in 1..Len(snapshot) : writes[j] > 0}}
        /\ NoTaskStarted => (sidecar.st = "absent" /\ output.data = {})

\* C5: a sidecar whose total_size, url or identity tag differs from the
\* call (None against Some differs, None against None does not) sends the
\* run down the cold restart path, and when its fetch phase begins the old
\* sidecar and output are gone, the output is new with length total_size
\* and the plan is fresh with no chunk completed; nothing in the output
\* comes from before the restart.
C5_MismatchColdRestart ==
    /\ []C5_ColdState
    /\ [][(rpc = "compare" /\ rpc' # "idle") =>
             (RecordDiffers <=> (rpc' = "cold_rm_sidecar" /\ mode' = "cold"))]_vars

C5_Witness ==
    /\ mode = "cold" /\ rpc = "fetch" /\ NoTaskStarted
    /\ sidecar.st = "absent" /\ output.len = args.total_size
    /\ Len(snapshot) > 1

\* C6: within one run a chunk is requested and written at most once and
\* only if its flag was false when the run started, and a chunk whose flag
\* the sidecar holds as true is not written again in that run.
C6_State ==
    rpc \in {"fetch", "returned"} =>
        \A i \in 1..Len(snapshot) :
            /\ reqs[i] <= 1 /\ writes[i] <= 1
            /\ snapshot[i].completed => (reqs[i] = 0 /\ writes[i] = 0)

C6_WriteOnce ==
    /\ []C6_State
    /\ [][(rpc = "fetch" /\ rpc' = "fetch" /\ sidecar.st = "json") =>
             \A i \in 1..Len(snapshot) :
                 sidecar.json.chunks[i].completed => writes'[i] = writes[i]]_vars

C6_Witness ==
    /\ mode = "warm" /\ rpc = "returned"
    /\ \E i \in 1..Len(snapshot) : snapshot[i].completed /\ writes[i] = 0
    /\ \E i \in 1..Len(snapshot) : ~snapshot[i].completed /\ writes[i] = 1

\* C7: every chunk pending at the start of the run has been attempted and
\* has finished when run_download returns, and if any task failed the
\* return value is ChunkDownloadFailed.
C7_FailureIsolation ==
    (rpc = "returned" /\ mode # "none") =>
        /\ \A i \in Pending : reqs[i] = 1 /\ task[i] = "C"
        /\ (\E i \in Pending : res[i] # "Ok") => rret = "ChunkDownloadFailed"

\* C8: the number of chunk tasks started and not yet finished never exceeds
\* 8 in a parallel run and 1 in a sequential run.
C8_InFlightCap ==
    rpc = "fetch" =>
        Cardinality(InFlight) <= (IF args.is_multipart THEN 8 ELSE 1)

C8_Witness ==
    /\ rpc = "fetch" /\ args.is_multipart
    /\ Cardinality(InFlight) = 8
    /\ Unspawned # {}

C9_State ==
    /\ probes <= 3
    /\ sleeps \in {<<>>, <<1>>, <<1, 2>>}
    /\ dpc = "probe" =>
          /\ probes = attempt - 1 /\ Len(sleeps) = attempt - 1
          /\ attempt > 1 => (last_error # None /\ last_error[1].kind = "HttpError")
    /\ dpc = "sleep" => (attempt < 3 /\ Len(sleeps) = attempt)
    /\ dret.kind = "HttpError" => (probes = 3 /\ sleeps = <<1, 2>> /\ last_error = Some(dret))
    /\ dret.kind = "DownloadFailed" => last_error = None

\* C9: dispatch sends at most 3 probes, a further probe only after an error
\* status, with sleeps of 1 s after the first failure and 2 s after the
\* second and none after the third; three error statuses end in HttpError
\* with the status of the last response, and DownloadFailed is returned
\* only when no status error was recorded.
C9_ProbeRetry ==
    /\ []C9_State
    /\ [][(dpc = "got" /\ dpc' # "idle" /\ ~probe_ok(probe_res.status)) =>
             IF attempt = 3
             THEN /\ dpc' = "returned" /\ sleeps' = sleeps /\ probes' = probes
                  /\ dret' = Result("HttpError", probe_res.status, "none")
             ELSE dpc' = "sleep" /\ dret' = NoResult]_vars

C9_Witness ==
    /\ dpc = "returned" /\ dret.kind = "HttpError" /\ dret.status = 503
    /\ probes = 3 /\ sleeps = <<1, 2>>

\* The size a header yields, in the words of the claim.
RangeHeaderSize(r) ==
    IF /\ r.content_range # None
       /\ r.content_range[1].ascii
       /\ r.content_range[1].text[1] = "bytes"
       /\ \A k \in 2..4 : r.content_range[1].text[k].digits
       /\ r.content_range[1].text[4].fits
    THEN Some(r.content_range[1].text[4].val)
    ELSE None

LengthHeaderSize(r) ==
    IF /\ r.content_length # None
       /\ r.content_length[1].ascii
       /\ r.content_length[1].text.digits
       /\ r.content_length[1].text.fits
    THEN Some(r.content_length[1].text.val)
    ELSE None

ExpectedSize(r) ==
    IF RangeHeaderSize(r) # None THEN RangeHeaderSize(r) ELSE LengthHeaderSize(r)

RangesSupported(r) ==
    \/ RangeHeaderSize(r) # None
    \/ /\ LengthHeaderSize(r) # None
       /\ r.accept_ranges = Some(Ascii("bytes"))

ExpectedExecutor(r) ==
    IF ExpectedSize(r) = None THEN "stream"
    ELSE IF RangesSupported(r) /\ ExpectedSize(r)[1] > 1048576 THEN "parallel"
    ELSE "sequential"

\* C10: after a successful probe dispatch runs the parallel executor
\* exactly when a size above 1 MiB is determined with ranges supported, the
\* sequential executor for every other determined size, and the stream
\* fallback exactly when no header yields a size; a parseable Content-Range
\* wins over Content-Length.
C10_ModeSelection ==
    [][(dpc = "got" /\ dpc' # "idle" /\ probe_ok(probe_res.status)) =>
          /\ dpc' = "running"
          /\ CASE ExpectedExecutor(probe_res) = "parallel" ->
                    /\ callee' = "download_multipart" /\ rpc' = "start" /\ spc' = "idle"
                    /\ args'.is_multipart /\ args'.total_size = ExpectedSize(probe_res)[1]
               [] ExpectedExecutor(probe_res) = "sequential" ->
                    /\ callee' = "download_sequential" /\ rpc' = "start" /\ spc' = "idle"
                    /\ ~args'.is_multipart /\ args'.total_size = ExpectedSize(probe_res)[1]
               [] ExpectedExecutor(probe_res) = "stream" ->
                    /\ callee' = "download_sequential" /\ rpc' = "idle" /\ spc' = "get"]_vars

C10_Witness ==
    /\ dpc = "running" /\ rpc = "start" /\ callee = "download_multipart"
    /\ args.is_multipart /\ args.total_size = MIN_SIZE_FOR_MULTIPART + 1

HttpScheme(url) == Len(url) >= 2 /\ url[1] \in {"http", "https"} /\ url[2] = "://"

\* C11: dispatch called with a url that does not begin with http:// or
\* https:// returns UnsupportedProtocol at once, with no probe request sent
\* and the output file and the sidecar left as they were.
C11_UnsupportedProtocol ==
    /\ [](dret.kind = "UnsupportedProtocol" => (probes = 0 /\ rpc = "idle" /\ spc = "idle"))
    /\ []((dpc \notin {"off", "idle"} /\ ~HttpScheme(durl)) =>
             (dpc = "returned" /\ dret.kind = "UnsupportedProtocol"))
    /\ [][(dpc = "idle" /\ dpc' # "idle" /\ ~HttpScheme(durl')) =>
             (sidecar' = sidecar /\ output' = output /\ probes' = 0)]_vars

C11_Witness ==
    /\ dpc = "returned" /\ dret.kind = "UnsupportedProtocol" /\ durl = UFtp
    /\ probes = 0 /\ sidecar.st = "json" /\ output.exists

\* C12: for every total_size > 0 and either parallel value the planner
\* returns a non-empty list of chunks with start <= end, the first starting
\* at 0, the last ending at total_size - 1, each starting one byte after
\* the end of the one before, and none completed.
C12_PlannerCoverage ==
    (rpc = "planned" /\ args.total_size > 0) =>
        /\ Len(snapshot) >= 1
        /\ snapshot[1].start = 0
        /\ snapshot[Len(snapshot)].end = args.total_size - 1
        /\ \A i \in 1..Len(snapshot) :
              /\ snapshot[i].start <= snapshot[i].end
              /\ ~snapshot[i].completed
              /\ i > 1 => snapshot[i].start = snapshot[i - 1].end + 1

C12_Witness ==
    /\ rpc = "planned" /\ args.is_multipart
    /\ args.total_size = 2 * MiB + 1 /\ Len(snapshot) = 3

\* C13: the planner returns at most 16 chunks for a parallel plan, exactly
\* one when total_size is below 10 MiB, and exactly one chunk for a
\* sequential plan.
C13_PlannerBounds ==
    rpc = "planned" =>
        IF args.is_multipart
        THEN /\ Len(snapshot) <= 16
             /\ args.total_size < 10 * MiB => Len(snapshot) = 1
        ELSE Len(snapshot) = 1

\* C20: for total_size = 0 the planner returns either the single chunk
\* [0, 0] marked completed or no chunk at all; it neither underflows on
\* total_size - 1 nor returns a chunk that ends beyond the resource.
C20_ZeroSizePlan ==
    (args.total_size = 0 /\ rpc \in {"planned", "panicked"}) =>
        /\ rpc = "planned"
        /\ snapshot = <<>> \/ snapshot = <<ChunkState(0, 0, TRUE)>>
        /\ \A i \in 1..Len(snapshot) : snapshot[i].end <= 0

\* C14: a chunk task whose response Content-Type differs from the probe's
\* fails with ContentTypeMismatch with none of its bytes written and its
\* flag unset in memory and in the sidecar; the run then returns
\* ChunkDownloadFailed and keeps the sidecar, so that a re-invocation
\* fetches only the failed chunks.
C14_ContentTypeGuard ==
    rpc \in {"fetch", "returned"} =>
        /\ \A i \in 1..Len(res) :
              res[i] = "ContentTypeMismatch" =>
                 /\ writes[i] = 0
                 /\ ~state.chunks[i].completed
                 /\ sidecar.st = "json" => ~sidecar.json.chunks[i].completed
        /\ (rpc = "returned" /\ \E i \in 1..Len(res) : res[i] = "ContentTypeMismatch") =>
                 (rret = "ChunkDownloadFailed" /\ sidecar.st = "json")

\* C16: the sidecar holding the fresh plan is on disk as soon as the plan
\* is built, on a first run and on a cold restart, and so before the first
\* chunk write to the output.
C16_FreshSidecarPersisted ==
    (rpc = "fetch" /\ mode \in {"fresh", "cold"}) =>
        /\ NoTaskStarted => sidecar = SidecarJson(to_string_pretty(state))
        /\ (\E i \in 1..Len(writes) : writes[i] > 0) => sidecar.st # "absent"

PersistedFlags(chunks) == {i \in 1..Len(chunks) : chunks[i].completed}

C17_State ==
    rpc \in {"fetch", "returned"} =>
        /\ Cardinality({i \in 1..Len(task) : task[i] = "T"}) <= 1
        /\ (lock # 0) => task[lock] = "T"
        /\ sidecar.st = "json" =>
              PersistedFlags(sidecar.json.chunks) =
                 PersistedFlags(snapshot) \cup {i \in 1..Len(res) : res[i] = "Ok"}

\* C17: at most one task at a time is inside the flag-flip and sidecar
\* rewrite; the sidecar on disk marks completed exactly the chunks
\* completed at run start plus those whose task has persisted its
\* completion, and within a run a persisted flag never goes back to false.
C17_NoLostUpdate ==
    /\ []C17_State
    /\ [][(rpc = "fetch" /\ rpc' \in {"fetch", "returned"}) =>
             /\ PersistedFlags(state.chunks) \subseteq PersistedFlags(state'.chunks)
             /\ (sidecar.st = "json" /\ sidecar'.st = "json") =>
                   PersistedFlags(sidecar.json.chunks) \subseteq PersistedFlags(sidecar'.json.chunks)]_vars

C17_Witness ==
    /\ rpc = "fetch" /\ mode = "warm" /\ sidecar.st = "json"
    /\ PersistedFlags(snapshot) # {}
    /\ Cardinality({i \in 1..Len(res) : res[i] = "Ok"}) >= 2
    /\ \E i \in 1..Len(task) : task[i] = "D"

\* C18: a transport failure of a probe request ends dispatch at once with a
\* network error: the probe that failed is the last one sent, no sleep is
\* added, and the output file and the sidecar stay as they were; the loop
\* sleeps and probes again only after an error status.
C18_ProbeTransportFatal ==
    /\ [](dret.kind = "Network" => (dpc = "returned" /\ rpc = "idle" /\ spc = "idle"))
    /\ [](dpc = "sleep" => (last_error # None /\ last_error[1].kind = "HttpError"))
    /\ [][(dpc = "probe" /\ dpc' \notin {"probe", "got", "idle"}) =>
             /\ dpc' = "returned" /\ dret'.kind = "Network"
             /\ probes' = probes + 1 /\ sleeps' = sleeps
             /\ sidecar' = sidecar /\ output' = output]_vars
    /\ [][(dpc = "returned" /\ dret.kind = "Network") =>
             (dpc' = "idle" /\ probes' = 0 /\ sidecar' = sidecar /\ output' = output)]_vars

C18_Witness ==
    /\ dpc = "returned" /\ dret.kind = "Network"
    /\ probes = 2 /\ sleeps = <<1>>
    /\ sidecar.st = "json" /\ output.exists

\* C19: while the stream fallback runs the sidecar is never created,
\* rewritten or removed; the output file is created or written only once
\* the unranged GET has returned a status in 200..299, and any other status
\* ends the call with HttpError of that status and the output file as it was.
C19_StreamFrame ==
    /\ [](spc \in {"create", "body"} => (200 <= sres /\ sres <= 299))
    /\ [][spc # "idle" => sidecar' = sidecar]_vars
    /\ [][(spc # "idle" /\ output' # output) => spc \in {"create", "body"}]_vars
    /\ [][(spc = "got" /\ ~(200 <= sres /\ sres <= 299) /\ dpc' # "idle") =>
             /\ dpc' = "returned" /\ dret' = Result("Http", sres, "HttpError")
             /\ spc' = "idle" /\ output' = output]_vars

C19_Witness ==
    /\ dpc = "returned" /\ dret = Result("Http", 404, "HttpError")
    /\ callee = "download_sequential" /\ rpc = "idle"
    /\ sidecar.st = "json" /\ output.exists /\ output.len > 0

\* C15: once the embedder has dropped the call, no chunk task of that run
\* writes the output file or rewrites the sidecar.
C15_CancelStopsTasks ==
    [][rpc = "dropped" => (output' = output /\ sidecar' = sidecar)]_vars

\* C21: whenever a parseable sidecar is on disk, the output file exists and
\* its length equals the total_size recorded in the sidecar.
C21_SidecarImpliesSizedOutput ==
    sidecar.st = "json" =>
        (output.exists /\ output.len = from_str(sidecar.json).total_size)

\* The run has loaded a sidecar that matches the call and marks every chunk
\* completed, or is past the comparison with such a sidecar.
C22_Case ==
    \/ rpc = "compare" /\ ~RecordDiffers /\ AllCompleted(state.chunks)
    \/ rpc \in {"fetch", "returned"} /\ mode = "warm" /\ AllCompleted(snapshot)

\* C22: a run that starts with a matching sidecar in which every chunk is
\* completed sends no chunk request, leaves the output file unchanged,
\* removes the sidecar and returns Ok.
C22_CompletedSidecarRun ==
    /\ [](C22_Case =>
             /\ \A i \in 1..Len(task) : task[i] = "Q" /\ reqs[i] = 0 /\ writes[i] = 0
             /\ rpc = "returned" => (rret = "Ok" /\ sidecar.st = "absent"))
    /\ [][C22_Case => output' = output]_vars
    /\ [][(C22_Case /\ rpc = "compare" /\ rpc' # "idle") =>
             (rpc' = "fetch" /\ mode' = "warm" /\ snapshot' = state.chunks
              /\ sidecar' = sidecar)]_vars
    /\ [][(C22_Case /\ rpc = "fetch" /\ rpc' # "idle") =>
             (rpc' = "returned" /\ rret' = "Ok"
              /\ sidecar.st = "json" /\ sidecar' = SidecarAbsent)]_vars

C22_Witness ==
    /\ rpc = "returned" /\ mode = "warm" /\ rret = "Ok"
    /\ Len(snapshot) = MaxChunks /\ AllCompleted(snapshot)
    /\ \A i \in 1..Len(snapshot) : reqs[i] = 0
    /\ sidecar.st = "absent"
    /\ output.exists /\ output.data = {Range(snapshot[i]) : i \in 1..Len(snapshot)}

====
